---- MODULE Spec2Model ----
(***************************************************************************)
(* Model of lab_helpers/faiss_helper.py: the FAISSVectorStore object (its  *)
(* in-memory index, its document list, its lazily created embeddings       *)
(* client), the storage directory index_path with its two artifacts        *)
(* index.faiss and documents.pkl, and the operations create_index,          *)
(* save_index, load_index and search.                                       *)
(*                                                                          *)
(* Every operation is one action.  A step of an operation that can raise    *)
(* (an embedding call, a file write, a file read) is an input `fail` of the *)
(* action naming the statement that raises; the action then applies exactly *)
(* the assignments the code has executed before that statement.            *)
(***************************************************************************)
EXTENDS Integers, Sequences, FiniteSets, TLC

(***************************************************************************)
(* Bounds                                                                   *)
(***************************************************************************)
\* longest document list handed to create_index
MaxDocs == 2
\* largest number of entries of the document directory
MaxFiles == 3
\* largest k handed to search
MaxK == 3
\* largest number of chunks of the knowledge base get_tax_information reads
MaxChunks == 3

(***************************************************************************)
(* Values                                                                   *)
(***************************************************************************)
\* chunk texts of the corpus
Texts == {"t1", "t2"}

\* the texts a caller searches for: the chunk texts and one more
Queries == Texts \cup {"q"}

\* embedding dimension of the model (length of every vector)
Dim == 2

\* embed_documents / embed_query of the embeddings client: a fixed function
\* from a text to a vector of length Dim
Embed(t) ==
    CASE t = "t1" -> <<0, 0>>
      [] t = "t2" -> <<1, 0>>
      [] OTHER    -> <<0, 1>>

\* a document chunk as built by load_documents_from_directory
Doc(t, src, i, n) ==
    [text |-> t, metadata |-> [source |-> src, chunk_id |-> i, total_chunks |-> n]]

\* the chunks of the corpus in directory order: a.txt yields one chunk,
\* b.txt two, the first with the same text as the chunk of a.txt
Corpus ==
    << Doc("t1", "a.txt", 0, 1), Doc("t1", "b.txt", 0, 2), Doc("t2", "b.txt", 1, 2) >>

\* the document lists a caller hands to create_index: the runs of at most
\* MaxDocs consecutive chunks of the corpus
DocLists ==
    { SubSeq(Corpus, a, b) : a \in 1..(Len(Corpus) + 1), b \in 0..Len(Corpus) }
      \cap UNION { [1..m -> {Corpus[i] : i \in 1..Len(Corpus)}] : m \in 0..MaxDocs }

(***************************************************************************)
(* load_documents_from_directory                                            *)
(***************************************************************************)
\* the names a document directory may hold
Files == {"a.txt", "b.txt", "c.txt", "notes.md"}

\* filename.endswith('.txt')
EndsWithTxt(f) == f \in {"a.txt", "b.txt", "c.txt"}

\* text_splitter.split_text(content) for the content of file f: the chunks
\* of the corpus; c.txt is an empty file and yields no chunk
Chunks(f) ==
    CASE f = "a.txt" -> <<"t1">>
      [] f = "b.txt" -> <<"t1", "t2">>
      [] OTHER       -> <<>>

\* the chunk loop with chunk_id counted from 1
FileDocsOneBased(f) ==
    [i \in 1..Len(Chunks(f)) |-> Doc(Chunks(f)[i], f, i, Len(Chunks(f)))]

\* the documents appended for file f: one per chunk, chunk_id = i of
\* enumerate(chunks), total_chunks = len(chunks)
FileDocs(f) ==
    [i \in 1..Len(Chunks(f)) |-> Doc(Chunks(f)[i], f, i - 1, Len(Chunks(f)))]

\* the loop with the try block around it: the first file that fails to read
\* ends the loading
RECURSIVE LoadDocumentsStopsAtFailure(_, _)
LoadDocumentsStopsAtFailure(names, failing) ==
    IF names = <<>> THEN <<>>
    ELSE IF ~EndsWithTxt(Head(names))
    THEN LoadDocumentsStopsAtFailure(Tail(names), failing)
    ELSE IF Head(names) \in failing THEN <<>>
    ELSE FileDocs(Head(names)) \o LoadDocumentsStopsAtFailure(Tail(names), failing)

\* load_documents_from_directory(directory): names is os.listdir(directory),
\* failing the files whose open or read raises.  A name that does not end in
\* .txt is passed over; a file that raises is reported and appends nothing.
RECURSIVE LoadDocuments(_, _)
LoadDocuments(names, failing) ==
    IF names = <<>> THEN <<>>
    ELSE (IF EndsWithTxt(Head(names)) /\ Head(names) \notin failing
          THEN FileDocs(Head(names))
          ELSE <<>>) \o LoadDocuments(Tail(names), failing)

\* the listings of a document directory: at most MaxFiles different names
Listings ==
    { l \in UNION { [1..m -> Files] : m \in 0..MaxFiles } :
        \A a, b \in 1..Len(l) : a # b => l[a] # l[b] }

\* exception names
NotReadyError == "ValueError"
NotFoundError == "FileNotFoundError"

(***************************************************************************)
(* The vector index (faiss.IndexFlatL2)                                     *)
(***************************************************************************)
\* self.index = None
NoneIndex == [isNone |-> TRUE, d |-> 0, xb |-> <<>>]

\* faiss.IndexFlatL2(dimension): an index of dimension d holding no vector
IndexFlatL2(d) == [isNone |-> FALSE, d |-> d, xb |-> <<>>]

\* index.add(array): appends the rows of the array
IndexAdd(ix, rows) == [ix EXCEPT !.xb = ix.xb \o rows]

\* squared Euclidean distance
SqDist(u, v) ==
    LET sq(x) == x * x
        RECURSIVE Sum(_)
        Sum(i) == IF i = 0 THEN 0 ELSE sq(u[i] - v[i]) + Sum(i - 1)
    IN Sum(Dim)

Min(a, b) == IF a < b THEN a ELSE b

\* the distance faiss reports in a slot it could not fill (FLT_MAX): larger
\* than every distance between two embeddings
PadDistance == 1 + 4 * Dim * Dim

\* the label faiss reports in a slot it could not fill
PadLabel == 0 - 1

\* index.search that ranks by non-increasing distance (farthest first)
IndexSearchFarthest(ix, q, k) ==
    LET n == Len(ix.xb)
        m == Min(k, n)
        dist(p) == SqDist(ix.xb[p + 1], q)
        tops == { s \in [1..m -> 0..(n - 1)] :
                    /\ \A a, b \in 1..m : a # b => s[a] # s[b]
                    /\ \A a, b \in 1..m : a < b => dist(s[a]) >= dist(s[b])
                    /\ \A p \in 0..(n - 1) :
                          (\A a \in 1..m : s[a] # p) =>
                              \A a \in 1..m : dist(s[a]) >= dist(p) }
    IN { [i \in 1..k |->
            IF i <= m THEN [idx |-> s[i], dist |-> dist(s[i])]
                      ELSE [idx |-> PadLabel, dist |-> PadDistance]] : s \in tops }

\* index.search(query, k): the sets of k (label, distance) slots the index
\* may report.  The first min(k, ntotal) slots are the closest stored
\* vectors in non-decreasing distance (labels are 0-based positions; the
\* order among equal distances is left to the library); the remaining slots
\* are padded with label -1 and distance FLT_MAX.
IndexSearch(ix, q, k) ==
    LET n == Len(ix.xb)
        m == Min(k, n)
        dist(p) == SqDist(ix.xb[p + 1], q)
        tops == { s \in [1..m -> 0..(n - 1)] :
                    /\ \A a, b \in 1..m : a # b => s[a] # s[b]
                    /\ \A a, b \in 1..m : a < b => dist(s[a]) <= dist(s[b])
                    /\ \A p \in 0..(n - 1) :
                          (\A a \in 1..m : s[a] # p) =>
                              \A a \in 1..m : dist(s[a]) <= dist(p) }
    IN { [i \in 1..k |->
            IF i <= m THEN [idx |-> s[i], dist |-> dist(s[i])]
                      ELSE [idx |-> PadLabel, dist |-> PadDistance]] : s \in tops }

(***************************************************************************)
(* State                                                                    *)
(***************************************************************************)
VARIABLES
    index,            \* self.index
    documents,        \* self.documents
    embeddings_model, \* self.embeddings_model is not None
    dirExists,        \* the directory index_path exists
    indexFile,        \* index_path/index.faiss
    docsFile,         \* index_path/documents.pkl
    lastOp,           \* the operation that ran last
    outcome,          \* "ok" or the exception it raised
    hits,             \* indices[0] / distances[0] of the last search
    results,          \* the list the last search returned
    everReady,        \* history: a create_index or load_index of this store returned normally
    saved,            \* history: the store content of the last save_index that returned normally
    listing,          \* os.listdir(directory) of a load_documents_from_directory call
    unreadable,       \* the files of that directory whose open or read raises
    loaded,           \* the list that call returned
    setup,            \* the arguments and locals of the last setup_faiss_knowledge_base call
    tool,             \* the last get_tax_information call: its results and context_parts
    searchers         \* the position and locals of each thread inside search

vars == <<index, documents, embeddings_model, dirExists, indexFile, docsFile,
          lastOp, outcome, hits, results, everReady, saved,
          listing, unreadable, loaded, setup, tool, searchers>>

\* the variables of the callers of the store
loaderVars == <<listing, unreadable, loaded>>
otherVars == <<loaderVars, tool, searchers>>

store == <<index, documents>>
disk == <<dirExists, indexFile, docsFile>>

(***************************************************************************)
(* Artifacts                                                                *)
(***************************************************************************)
\* a file that does not exist
MissingFile == [state |-> "missing", d |-> 0, ntotal |-> 0, codes |-> <<>>, items |-> <<>>]

\* a file left truncated by a write that did not complete
CorruptFile == [state |-> "corrupt", d |-> 0, ntotal |-> 0, codes |-> <<>>, items |-> <<>>]

\* row-major flattening of a list of vectors
RECURSIVE Flatten(_)
Flatten(rows) == IF rows = <<>> THEN <<>> ELSE Head(rows) \o Flatten(Tail(rows))

\* the rows of a flattened array of n vectors of length d
Reshape(codes, n, d) ==
    [r \in 1..n |-> [c \in 1..d |-> codes[(r - 1) * d + c]]]

\* faiss.write_index(index, file): header d, ntotal and the flat codes
WriteIndex(ix) ==
    [state |-> "valid", d |-> ix.d, ntotal |-> Len(ix.xb),
     codes |-> Flatten(ix.xb), items |-> <<>>]

\* faiss.read_index(file)
ReadIndex(f) ==
    [isNone |-> FALSE, d |-> f.d, xb |-> Reshape(f.codes, f.ntotal, f.d)]

\* pickle.dump that loses the chunk position of every document
PickleDumpLosesChunkId(docs) ==
    [state |-> "valid", d |-> 0, ntotal |-> 0, codes |-> <<>>,
     items |-> [i \in 1..Len(docs) |->
                 <<docs[i].text, docs[i].metadata.source,
                   0, docs[i].metadata.total_chunks>>]]

\* pickle.dump(documents, f): one tuple of fields per document
PickleDump(docs) ==
    [state |-> "valid", d |-> 0, ntotal |-> 0, codes |-> <<>>,
     items |-> [i \in 1..Len(docs) |->
                 <<docs[i].text, docs[i].metadata.source,
                   docs[i].metadata.chunk_id, docs[i].metadata.total_chunks>>]]

\* pickle.load(f)
PickleLoad(f) ==
    [i \in 1..Len(f.items) |->
        Doc(f.items[i][1], f.items[i][2], f.items[i][3], f.items[i][4])]

\* the last operation was not setup_faiss_knowledge_base
NoSetup == [force_rebuild |-> FALSE, index_exists |-> FALSE, rebuilt |-> FALSE,
            ndocs |-> 0]

\* load_documents_from_directory has not been called
NotLoaded == [called |-> FALSE, docs |-> <<>>]

\* get_tax_information has not been called
NoCall == [called |-> FALSE, response |-> "", error |-> "", results |-> <<>>,
           context_parts |-> <<>>]

\* a thread that is not inside search
Idle == [pc |-> "idle", query |-> "", k |-> 0, hits |-> <<>>, i |-> 0,
         results |-> <<>>, outcome |-> ""]

\* no thread runs: the store is used by one caller
NoSearchers == <<>>

\* history value: no save has returned normally on the current directory content
NoSave == [valid |-> FALSE, replaced |-> FALSE, index |-> NoneIndex, documents |-> <<>>]

(***************************************************************************)
(* Initial state: a constructed store, no storage directory                 *)
(***************************************************************************)
Init ==
    /\ index = NoneIndex
    /\ documents = <<>>
    /\ embeddings_model = FALSE
    /\ dirExists = FALSE
    /\ indexFile = MissingFile
    /\ docsFile = MissingFile
    /\ lastOp = "__init__"
    /\ outcome = "ok"
    /\ hits = <<>>
    /\ results = <<>>
    /\ everReady = FALSE
    /\ saved = NoSave
    /\ listing = <<>>
    /\ unreadable = {}
    /\ loaded = NotLoaded
    /\ setup = NoSetup
    /\ tool = NoCall
    /\ searchers = NoSearchers

\* FAISSVectorStore(index_path): a new store object on the same directory
NewStore ==
    /\ index' = NoneIndex
    /\ documents' = <<>>
    /\ embeddings_model' = FALSE
    /\ lastOp' = "__init__"
    /\ outcome' = "ok"
    /\ hits' = <<>>
    /\ results' = <<>>
    /\ everReady' = FALSE
    /\ UNCHANGED <<disk, saved>>

(***************************************************************************)
(* create_index                                                             *)
(***************************************************************************)
\* the statements of create_index that can raise
CreateFailures == {"none", "embed_documents", "IndexFlatL2", "add"}

\* create_index(documents).  fail names the statement that raises:
\* embed_documents (the provider call), IndexFlatL2 (constructing the index),
\* add (adding the vectors to the index just assigned to self.index).
create_index(docs, fail) ==
    LET embeddings == [i \in 1..Len(docs) |-> Embed(docs[i].text)]
    IN
    /\ lastOp' = "create_index"
    /\ embeddings_model' = TRUE
    /\ hits' = <<>>
    /\ results' = <<>>
    /\ UNCHANGED <<disk, saved>>
    /\ IF fail = "embed_documents"
       THEN /\ outcome' = "ProviderError"
            /\ UNCHANGED <<store, everReady>>
       ELSE IF docs = <<>>
       THEN \* embeddings_array.shape[1] of an array of shape (0,)
            /\ outcome' = "IndexError"
            /\ UNCHANGED <<store, everReady>>
       ELSE IF fail = "IndexFlatL2"
       THEN /\ outcome' = "MemoryError"
            /\ UNCHANGED <<store, everReady>>
       ELSE IF fail = "add"
       THEN /\ outcome' = "RuntimeError"
            /\ index' = IndexFlatL2(Dim)
            /\ UNCHANGED <<documents, everReady>>
       ELSE /\ outcome' = "ok"
            /\ index' = IndexAdd(IndexFlatL2(Dim), embeddings)
            /\ documents' = docs
            /\ everReady' = TRUE

(***************************************************************************)
(* save_index                                                               *)
(***************************************************************************)
\* the statements of save_index that can raise
SaveFailures == {"none", "makedirs", "write_index_open", "write_index",
                 "open_docs", "pickle_dump"}

\* history kept for the round trip: the store content of a save that returned
\* normally, dropped as soon as a later save changes an artifact
SavedAfter(ok, newIndexFile, newDocsFile) ==
    IF ok /\ ~index.isNone
    THEN [valid |-> TRUE,
          replaced |-> /\ indexFile.state = "valid"
                       /\ docsFile.state = "valid"
                       /\ <<indexFile, docsFile>> # <<newIndexFile, newDocsFile>>,
          index |-> index, documents |-> documents]
    ELSE IF <<newIndexFile, newDocsFile>> = <<indexFile, docsFile>>
    THEN saved
    ELSE NoSave

\* save_index().  fail names the statement that raises: makedirs,
\* write_index_open (write_index raises before it has opened index.faiss),
\* write_index (it raises after it has opened, hence truncated, the file),
\* open_docs (open(documents.pkl, 'wb') raises), pickle_dump (pickle.dump
\* raises after open has truncated the file).  With self.index None,
\* write_index has no index to serialize and raises, before or after it has
\* opened the file.
save_index(fail) ==
    /\ lastOp' = "save_index"
    /\ hits' = <<>>
    /\ results' = <<>>
    /\ UNCHANGED <<store, embeddings_model, everReady>>
    /\ IF fail = "makedirs"
       THEN /\ outcome' = "OSError"
            /\ UNCHANGED <<disk, saved>>
       ELSE /\ dirExists' = TRUE
            /\ IF fail = "write_index_open"
               THEN /\ outcome' = "RuntimeError"
                    /\ UNCHANGED <<indexFile, docsFile, saved>>
               ELSE IF fail = "write_index" \/ index.isNone
               THEN /\ outcome' = "RuntimeError"
                    /\ indexFile' = CorruptFile
                    /\ UNCHANGED docsFile
                    /\ saved' = SavedAfter(FALSE, CorruptFile, docsFile)
               ELSE /\ indexFile' = WriteIndex(index)
                    /\ IF fail = "open_docs"
                       THEN /\ outcome' = "OSError"
                            /\ UNCHANGED docsFile
                            /\ saved' = SavedAfter(FALSE, WriteIndex(index), docsFile)
                       ELSE IF fail = "pickle_dump"
                       THEN /\ outcome' = "PicklingError"
                            /\ docsFile' = CorruptFile
                            /\ saved' = SavedAfter(FALSE, WriteIndex(index), CorruptFile)
                       ELSE /\ outcome' = "ok"
                            /\ docsFile' = PickleDump(documents)
                            /\ saved' = SavedAfter(TRUE, WriteIndex(index),
                                                   PickleDump(documents))

(***************************************************************************)
(* load_index                                                               *)
(***************************************************************************)
\* the statements of load_index that can raise on a readable artifact
LoadFailures == {"none", "read_index", "pickle_load"}

\* the existence test with `and` in place of `or`: passes when one artifact exists
ArtifactsExistEither ==
    \/ indexFile.state # "missing"
    \/ docsFile.state # "missing"

\* os.path.exists(index_file) and os.path.exists(docs_file)
ArtifactsExist ==
    /\ indexFile.state # "missing"
    /\ docsFile.state # "missing"

\* load_index().  fail names a statement that raises although its artifact
\* is well formed (an I/O error); a truncated artifact makes its reader raise
\* whatever fail is.
load_index(fail) ==
    /\ lastOp' = "load_index"
    /\ hits' = <<>>
    /\ results' = <<>>
    /\ UNCHANGED <<embeddings_model, disk, saved>>
    /\ IF ~ArtifactsExist
       THEN /\ outcome' = NotFoundError
            /\ UNCHANGED <<store, everReady>>
       ELSE IF fail = "read_index" \/ indexFile.state # "valid"
       THEN /\ outcome' = "RuntimeError"
            /\ UNCHANGED <<store, everReady>>
       ELSE /\ index' = ReadIndex(indexFile)
            /\ IF fail = "pickle_load" \/ docsFile.state # "valid"
               THEN /\ outcome' = "UnpicklingError"
                    /\ UNCHANGED <<documents, everReady>>
               ELSE /\ outcome' = "ok"
                    /\ documents' = PickleLoad(docsFile)
                    /\ everReady' = TRUE

(***************************************************************************)
(* search                                                                   *)
(***************************************************************************)
\* 1 / (1 + distance), as the fraction num / den
Score(dist) == [num |-> 1, den |-> 1 + dist]

\* documents[idx] of Python: a negative idx counts from the end of the list
PyItem(docs, idx) ==
    IF idx >= 0 THEN docs[idx + 1] ELSE docs[Len(docs) + idx + 1]

\* the ranks i of enumerate(indices[0]) that pass `idx < len(self.documents)`
KeptRanks(docs, h) ==
    LET RECURSIVE Keep(_)
        Keep(i) ==
            IF i > Len(h) THEN <<>>
            ELSE IF h[i].idx < Len(docs) THEN <<i>> \o Keep(i + 1)
            ELSE Keep(i + 1)
    IN Keep(1)

\* documents[idx] raises IndexError for some rank the loop reaches
ItemRaises(docs, h) ==
    \E i \in 1..Len(h) :
        /\ h[i].idx < Len(docs)
        /\ (h[i].idx >= Len(docs) \/ h[i].idx < 0 - Len(docs))

\* the list built by the loop over enumerate(indices[0])
SearchResults(docs, h) ==
    LET kept == KeptRanks(docs, h)
    IN [j \in 1..Len(kept) |->
          LET doc == PyItem(docs, h[kept[j]].idx)
          IN [text |-> doc.text, metadata |-> doc.metadata,
              score |-> Score(h[kept[j]].dist)]]

\* `if self.index is None`
IndexNotLoaded == index.isNone

\* search(query, k).  providerFails: embed_query raises.
search(query, k, providerFails) ==
    /\ lastOp' = "search"
    /\ UNCHANGED <<store, disk, everReady, saved>>
    /\ IF IndexNotLoaded
       THEN /\ outcome' = NotReadyError
            /\ hits' = <<>>
            /\ results' = <<>>
            /\ UNCHANGED embeddings_model
       ELSE /\ embeddings_model' = TRUE
            /\ IF providerFails
               THEN /\ outcome' = "ProviderError"
                    /\ hits' = <<>>
                    /\ results' = <<>>
               ELSE \E h \in IndexSearch(index, Embed(query), k) :
                    /\ hits' = h
                    /\ IF ItemRaises(documents, h)
                       THEN /\ outcome' = "IndexError"
                            /\ results' = <<>>
                       ELSE /\ outcome' = "ok"
                            /\ results' = SearchResults(documents, h)

(***************************************************************************)
(* Specification                                                            *)
(***************************************************************************)
CreateIndex == \E docs \in DocLists, fail \in CreateFailures : create_index(docs, fail)
SaveIndex == \E fail \in SaveFailures : save_index(fail)
LoadIndex == \E fail \in LoadFailures : load_index(fail)
Search == \E query \in Queries, k \in 1..MaxK, providerFails \in BOOLEAN :
              search(query, k, providerFails)

(***************************************************************************)
(* setup_faiss_knowledge_base                                               *)
(***************************************************************************)
\* os.listdir(data_directory) of the callers of setup_faiss_knowledge_base
DataDirectory == <<"notes.md", "a.txt", "c.txt", "b.txt">>

\* `if index_exists and not force_rebuild`
LoadsExisting(index_exists, force_rebuild) == index_exists /\ ~force_rebuild

\* setup_faiss_knowledge_base(data_directory, index_path, force_rebuild) on a
\* data directory whose files in `failing` fail to read.  fail names the
\* statement of load_index, create_index or save_index that raises, if the
\* call reaches it.  The store of the model becomes the store of the call:
\* the returned one, or a new empty one when the call raises and its store
\* is lost.
setup_faiss_knowledge_base(failing, force_rebuild, fail) ==
    LET index_exists == indexFile.state # "missing"
        docs == LoadDocuments(DataDirectory, failing)
        built == IndexAdd(IndexFlatL2(Dim), [i \in 1..Len(docs) |-> Embed(docs[i].text)])
        Raises(e) ==
            /\ outcome' = e
            /\ index' = NoneIndex
            /\ documents' = <<>>
            /\ embeddings_model' = FALSE
            /\ everReady' = FALSE
        Written(newIndexFile, newDocsFile) ==
            /\ dirExists' = TRUE
            /\ indexFile' = newIndexFile
            /\ docsFile' = newDocsFile
            /\ saved' = IF <<newIndexFile, newDocsFile>> = <<indexFile, docsFile>>
                        THEN saved ELSE NoSave
    IN
    /\ lastOp' = "setup_faiss_knowledge_base"
    /\ hits' = <<>>
    /\ results' = <<>>
    /\ UNCHANGED otherVars
    /\ IF LoadsExisting(index_exists, force_rebuild)
       THEN \* vector_store.load_index() on the new store
            /\ setup' = [force_rebuild |-> force_rebuild, index_exists |-> index_exists,
                         rebuilt |-> FALSE, ndocs |-> 0]
            /\ UNCHANGED <<disk, saved>>
            /\ IF ~ArtifactsExist
               THEN Raises(NotFoundError)
               ELSE IF fail = "read_index" \/ indexFile.state # "valid"
               THEN Raises("RuntimeError")
               ELSE IF fail = "pickle_load" \/ docsFile.state # "valid"
               THEN Raises("UnpicklingError")
               ELSE /\ outcome' = "ok"
                    /\ index' = ReadIndex(indexFile)
                    /\ documents' = PickleLoad(docsFile)
                    /\ embeddings_model' = FALSE
                    /\ everReady' = TRUE
       ELSE \* load_documents_from_directory, create_index, save_index
            /\ Len(docs) <= MaxDocs
            /\ setup' = [force_rebuild |-> force_rebuild, index_exists |-> index_exists,
                         rebuilt |-> TRUE, ndocs |-> Len(docs)]
            /\ IF fail = "embed_documents"
               THEN Raises("ProviderError") /\ UNCHANGED <<disk, saved>>
               ELSE IF docs = <<>>
               THEN Raises("IndexError") /\ UNCHANGED <<disk, saved>>
               ELSE IF fail = "IndexFlatL2"
               THEN Raises("MemoryError") /\ UNCHANGED <<disk, saved>>
               ELSE IF fail = "add"
               THEN Raises("RuntimeError") /\ UNCHANGED <<disk, saved>>
               ELSE IF fail = "makedirs"
               THEN Raises("OSError") /\ UNCHANGED <<disk, saved>>
               ELSE IF fail = "write_index_open"
               THEN Raises("RuntimeError") /\ Written(indexFile, docsFile)
               ELSE IF fail = "write_index"
               THEN Raises("RuntimeError") /\ Written(CorruptFile, docsFile)
               ELSE IF fail = "open_docs"
               THEN Raises("OSError") /\ Written(WriteIndex(built), docsFile)
               ELSE IF fail = "pickle_dump"
               THEN Raises("PicklingError") /\ Written(WriteIndex(built), CorruptFile)
               ELSE /\ outcome' = "ok"
                    /\ index' = built
                    /\ documents' = docs
                    /\ embeddings_model' = TRUE
                    /\ everReady' = TRUE
                    /\ dirExists' = TRUE
                    /\ indexFile' = WriteIndex(built)
                    /\ docsFile' = PickleDump(docs)
                    /\ saved' = [valid |-> TRUE,
                                 replaced |-> /\ indexFile.state = "valid"
                                              /\ docsFile.state = "valid"
                                              /\ <<indexFile, docsFile>> #
                                                   <<WriteIndex(built), PickleDump(docs)>>,
                                 index |-> built, documents |-> docs]

\* the calls of setup_faiss_knowledge_base: the files that fail to read and
\* the statement that raises are drawn for the branch the call takes
Setup ==
    \E force_rebuild \in BOOLEAN :
        IF LoadsExisting(indexFile.state # "missing", force_rebuild)
        THEN \E fail \in LoadFailures :
                setup_faiss_knowledge_base({}, force_rebuild, fail)
        ELSE \E failing \in SUBSET {"a.txt", "b.txt"},
                fail \in CreateFailures \cup SaveFailures :
                setup_faiss_knowledge_base(failing, force_rebuild, fail)

\* an operation other than setup_faiss_knowledge_base ran
Direct == setup' = NoSetup /\ UNCHANGED otherVars

Next ==
    \/ NewStore /\ Direct
    \/ CreateIndex /\ Direct
    \/ SaveIndex /\ Direct
    \/ LoadIndex /\ Direct
    \/ Search /\ Direct
    \/ Setup

Spec == Init /\ [][Next]_vars

(***************************************************************************)
(* Specification of load_documents_from_directory: the function applied to  *)
(* every document directory of at most MaxFiles entries                     *)
(***************************************************************************)
storeVars == <<index, documents, embeddings_model, dirExists, indexFile, docsFile,
               lastOp, outcome, hits, results, everReady, saved>>

InitLoader ==
    /\ index = NoneIndex
    /\ documents = <<>>
    /\ embeddings_model = FALSE
    /\ dirExists = FALSE
    /\ indexFile = MissingFile
    /\ docsFile = MissingFile
    /\ lastOp = "__init__"
    /\ outcome = "ok"
    /\ hits = <<>>
    /\ results = <<>>
    /\ everReady = FALSE
    /\ saved = NoSave
    /\ listing \in Listings
    /\ unreadable \in SUBSET { listing[i] : i \in 1..Len(listing) }
    /\ \A f \in unreadable : EndsWithTxt(f)
    /\ loaded = NotLoaded
    /\ setup = NoSetup
    /\ tool = NoCall
    /\ searchers = NoSearchers

\* documents = vector_store.load_documents_from_directory(directory)
load_documents_from_directory ==
    /\ loaded' = [called |-> TRUE, docs |-> LoadDocuments(listing, unreadable)]
    /\ UNCHANGED <<storeVars, listing, unreadable, setup, tool, searchers>>

NextLoader == load_documents_from_directory

SpecLoader == InitLoader /\ [][NextLoader]_vars

(***************************************************************************)
(* Specification of concurrent searches: two threads call search on one     *)
(* Ready store, any number of times, interleaved statement by statement     *)
(***************************************************************************)
\* the threads that call search
Threads == {"T1", "T2"}

\* the stores a build or a load leaves Ready: an index of the vectors of one
\* document list with the documents of the same or of another list
ReadyStores ==
    { <<IndexAdd(IndexFlatL2(Dim), [i \in 1..Len(a) |-> Embed(a[i].text)]), b>> :
        a \in DocLists \ {<<>>}, b \in DocLists }

InitConc ==
    /\ \E st \in ReadyStores : index = st[1] /\ documents = st[2]
    /\ embeddings_model \in BOOLEAN
    /\ dirExists = FALSE
    /\ indexFile = MissingFile
    /\ docsFile = MissingFile
    /\ lastOp = "__init__"
    /\ outcome = "ok"
    /\ hits = <<>>
    /\ results = <<>>
    /\ everReady = TRUE
    /\ saved = NoSave
    /\ listing = <<>>
    /\ unreadable = {}
    /\ loaded = NotLoaded
    /\ setup = NoSetup
    /\ tool = NoCall
    /\ searchers = [t \in Threads |-> Idle]

\* what the threads leave alone
concFrame == <<dirExists, indexFile, docsFile, lastOp, outcome, hits, results,
               everReady, saved, listing, unreadable, loaded, setup, tool>>

\* thread t leaves search: by return (outcome "ok") or by an exception
Leaves(t, e, res) ==
    searchers' = [searchers EXCEPT ![t].pc = "done", ![t].outcome = e, ![t].results = res]

\* thread t calls search(query, k) and evaluates `if self.index is None`
CallSearch(t, query, k) ==
    /\ searchers[t].pc \in {"idle", "done"}
    /\ IF IndexNotLoaded
       THEN searchers' = [searchers EXCEPT ![t] =
                [Idle EXCEPT !.pc = "done", !.query = query, !.k = k,
                             !.outcome = NotReadyError]]
       ELSE searchers' = [searchers EXCEPT ![t] =
                [Idle EXCEPT !.pc = "embed_query", !.query = query, !.k = k]]
    /\ UNCHANGED <<store, embeddings_model, concFrame>>

\* thread t runs _initialize_embeddings and embed_query
EmbedQuery(t, providerFails) ==
    /\ searchers[t].pc = "embed_query"
    /\ embeddings_model' = TRUE
    /\ IF providerFails
       THEN Leaves(t, "ProviderError", <<>>)
       ELSE searchers' = [searchers EXCEPT ![t].pc = "index_search"]
    /\ UNCHANGED <<store, concFrame>>

\* thread t runs self.index.search(query_array, k)
SearchIndex(t) ==
    /\ searchers[t].pc = "index_search"
    /\ \E h \in IndexSearch(index, Embed(searchers[t].query), searchers[t].k) :
          searchers' = [searchers EXCEPT ![t].pc = "loop", ![t].hits = h, ![t].i = 1]
    /\ UNCHANGED <<store, embeddings_model, concFrame>>

\* the position of documents[idx] in the list
PyPos(docs, idx) == IF idx >= 0 THEN idx + 1 ELSE Len(docs) + idx + 1

\* doc = self.documents[idx]; doc['score'] = ...: the score is set on the
\* stored document itself
DocumentsAfterScoreInPlace(docs, idx, dist) ==
    [docs EXCEPT ![PyPos(docs, idx)] =
        [text |-> @.text, metadata |-> @.metadata, score |-> Score(dist)]]

\* doc = self.documents[idx].copy(); doc['score'] = ...: the score is set on
\* the copy, the list keeps its documents
DocumentsAfterScore(docs, idx, dist) == docs

\* thread t runs one iteration of the loop over enumerate(indices[0]), or
\* leaves the loop and returns results
LoopStep(t) ==
    LET s == searchers[t]
        h == s.hits[s.i]
    IN
    /\ s.pc = "loop"
    /\ UNCHANGED <<index, embeddings_model, concFrame>>
    /\ IF s.i > Len(s.hits)
       THEN Leaves(t, "ok", s.results) /\ UNCHANGED documents
       ELSE IF ~(h.idx < Len(documents))
       THEN /\ searchers' = [searchers EXCEPT ![t].i = s.i + 1]
            /\ UNCHANGED documents
       ELSE IF h.idx >= Len(documents) \/ h.idx < 0 - Len(documents)
       THEN Leaves(t, "IndexError", <<>>) /\ UNCHANGED documents
       ELSE /\ searchers' = [searchers EXCEPT
                ![t].i = s.i + 1,
                ![t].results = Append(s.results,
                    [text |-> PyItem(documents, h.idx).text,
                     metadata |-> PyItem(documents, h.idx).metadata,
                     score |-> Score(h.dist)])]
            /\ documents' = DocumentsAfterScore(documents, h.idx, h.dist)

NextConc ==
    \/ \E t \in Threads, query \in Queries, k \in 1..MaxK : CallSearch(t, query, k)
    \/ \E t \in Threads, providerFails \in BOOLEAN : EmbedQuery(t, providerFails)
    \/ \E t \in Threads : SearchIndex(t)
    \/ \E t \in Threads : LoopStep(t)

SpecConc == InitConc /\ [][NextConc]_vars

(***************************************************************************)
(* Specification of get_tax_information (lab1_strands_agent_faiss.py): the  *)
(* tool applied to every storage directory of a knowledge base of at most   *)
(* MaxChunks chunks                                                         *)
(***************************************************************************)
\* k of vector_store.search(query, k=3)
ToolK == 3

\* the end of the slice results[1:3]
SliceEnd == 3

\* the threshold of `result['score'] > 0.5`
Threshold == [num |-> 1, den |-> 2]

\* result['score'] >= 0.5
HighRelevanceInclusive(score) == score.num * Threshold.den >= Threshold.num * score.den

\* result['score'] > 0.5
HighRelevance(score) == score.num * Threshold.den > Threshold.num * score.den

\* the document lists of a knowledge base file kb.txt split into chunks
ToolDocLists ==
    UNION { { [i \in 1..m |-> Doc(ts[i], "kb.txt", i - 1, m)] : ts \in [1..m -> Texts] } :
              m \in 0..MaxChunks }

\* what index.faiss of faiss_index may be: absent, truncated, or written
\* from the vectors of a document list
ToolIndexFiles ==
    {MissingFile, CorruptFile} \cup
    { WriteIndex(IndexAdd(IndexFlatL2(Dim), [i \in 1..Len(a) |-> Embed(a[i].text)])) :
        a \in ToolDocLists }

\* what documents.pkl of faiss_index may be
ToolDocsFiles ==
    {MissingFile, CorruptFile} \cup { PickleDump(b) : b \in ToolDocLists }

InitTool ==
    /\ index = NoneIndex
    /\ documents = <<>>
    /\ embeddings_model = FALSE
    /\ indexFile \in ToolIndexFiles
    /\ docsFile \in ToolDocsFiles
    /\ indexFile.state = "missing" => docsFile.state = "missing"
    /\ dirExists = (indexFile.state # "missing")
    /\ lastOp = "__init__"
    /\ outcome = "ok"
    /\ hits = <<>>
    /\ results = <<>>
    /\ everReady = FALSE
    /\ saved = NoSave
    /\ listing = <<>>
    /\ unreadable = {}
    /\ loaded = NotLoaded
    /\ setup = NoSetup
    /\ tool = NoCall
    /\ searchers = NoSearchers

\* results[a:b] of Python for 0 <= a <= b
PySlice(seq, a, b) == SubSeq(seq, a + 1, Min(b, Len(seq)))

\* context_parts: the text of the top result, then one part for every
\* result of results[1:3] that passes the threshold, labelled with its i of
\* enumerate(results[1:3], 1).  The top result has label 0.
ContextParts(res) ==
    LET rest == PySlice(res, 1, SliceEnd)
        RECURSIVE Parts(_)
        Parts(i) ==
            IF i > Len(rest) THEN <<>>
            ELSE IF HighRelevance(rest[i].score)
            THEN <<[label |-> i, text |-> rest[i].text]>> \o Parts(i + 1)
            ELSE Parts(i + 1)
    IN <<[label |-> 0, text |-> res[1].text]>> \o Parts(1)

\* the statements of the try block that can raise on well-formed artifacts
ToolFailures == {"none", "read_index", "pickle_load", "embed_query"}

\* get_tax_information(query): a new store on faiss_index is loaded and
\* searched with k = 3; every exception is caught and reported in the
\* returned text.  The store is local to the call.
get_tax_information(query, fail) ==
    LET Caught(e) ==
            tool' = [called |-> TRUE, response |-> "error", error |-> e,
                     results |-> <<>>, context_parts |-> <<>>]
        ix == ReadIndex(indexFile)
        docs == PickleLoad(docsFile)
    IN
    /\ UNCHANGED <<storeVars, loaderVars, setup, searchers>>
    /\ IF ~ArtifactsExist
       THEN Caught(NotFoundError)
       ELSE IF fail = "read_index" \/ indexFile.state # "valid"
       THEN Caught("RuntimeError")
       ELSE IF fail = "pickle_load" \/ docsFile.state # "valid"
       THEN Caught("UnpicklingError")
       ELSE IF fail = "embed_query"
       THEN Caught("ProviderError")
       ELSE \E h \in IndexSearch(ix, Embed(query), ToolK) :
               IF ItemRaises(docs, h)
               THEN Caught("IndexError")
               ELSE LET res == SearchResults(docs, h)
                    IN IF res # <<>>
                       THEN tool' = [called |-> TRUE, response |-> "answer",
                                     error |-> "", results |-> res,
                                     context_parts |-> ContextParts(res)]
                       ELSE tool' = [called |-> TRUE, response |-> "unable to locate",
                                     error |-> "", results |-> res,
                                     context_parts |-> <<>>]

NextTool == \E query \in Queries, fail \in ToolFailures : get_tax_information(query, fail)

SpecTool == InitTool /\ [][NextTool]_vars

TypeOK ==
    /\ index.isNone \in BOOLEAN
    /\ Len(documents) <= MaxDocs
    /\ Len(hits) <= MaxK

(***************************************************************************)
(* Properties                                                               *)
(***************************************************************************)
\* the store accepts a search
Ready == ~index.isNone

\* a / b <= c / d for fractions with positive denominators
FracLeq(x, y) == x.num * y.den <= y.num * x.den

\* C1: while no create_index and no load_index of the store has returned
\* normally, a search never returns a result: it raises the not-ready error.
C1_SearchBeforeReadyRaisesNotReady ==
    (lastOp = "search" /\ ~everReady) => outcome = NotReadyError

\* C2: on a store whose index holds n vectors for its n documents, a search
\* for k >= 1 that returns, returns exactly min(k, n) results, each for a
\* different stored position and none for a padding slot.
C2_SearchReturnsMinKN ==
    (lastOp = "search" /\ outcome = "ok" /\ everReady
        /\ Len(index.xb) = Len(documents)) =>
        /\ Len(results) = Min(Len(hits), Len(index.xb))
        /\ \A i \in 1..Len(hits) : hits[i].idx < Len(documents) => hits[i].idx >= 0

\* C3: every result of a search is the document stored at the position the
\* index reported at its rank, with score 1 / (1 + distance) for the distance
\* reported at that rank; the score is in (0, 1], is 1 only for distance 0,
\* and a larger distance never has a larger score.
C3_ResultIsReportedPassageWithScore ==
    (lastOp = "search" /\ outcome = "ok") =>
        LET kept == KeptRanks(documents, hits)
        IN /\ Len(results) = Len(kept)
           /\ \A j \in 1..Len(results) :
                LET h == hits[kept[j]]
                    r == results[j]
                IN /\ h.idx \in 0..(Len(documents) - 1)
                   /\ r.text = documents[h.idx + 1].text
                   /\ r.metadata = documents[h.idx + 1].metadata
                   /\ r.score.num * (1 + h.dist) = r.score.den
                   /\ 0 < r.score.num
                   /\ r.score.num <= r.score.den
                   /\ (r.score.num = r.score.den => h.dist = 0)
           /\ \A j1, j2 \in 1..Len(results) :
                hits[kept[j1]].dist < hits[kept[j2]].dist =>
                    FracLeq(results[j2].score, results[j1].score)

\* C4: a load_index that raises leaves self.index and self.documents as they
\* were before the call.
C4_FailedLoadLeavesStore ==
    [][(lastOp' = "load_index" /\ outcome' # "ok") => UNCHANGED store]_vars

\* C5: a load_index on a directory whose index artifact holds a number of
\* vectors different from the number of documents in the metadata artifact
\* does not return normally.
C5_LoadRejectsMismatchedCounts ==
    (/\ lastOp = "load_index"
     /\ indexFile.state = "valid"
     /\ docsFile.state = "valid"
     /\ indexFile.ntotal # Len(docsFile.items)) => outcome # "ok"

\* C6: after a save_index of a store holding an index, whether it returned or
\* raised, the directory holds no artifact at all or the two artifacts of one
\* store content (that of the last save that returned).
C6_SaveIsAllOrNothing ==
    (lastOp = "save_index" /\ Ready) =>
        \/ indexFile.state = "missing" /\ docsFile.state = "missing"
        \/ /\ saved.valid
           /\ indexFile = WriteIndex(saved.index)
           /\ docsFile = PickleDump(saved.documents)

\* C7: a load_index that returns on a directory last written by a save_index
\* that returned yields the vectors and the documents of the saved store, in
\* order and field for field, whatever the directory and the loading store
\* held before.
C7_RoundTrip ==
    (lastOp = "load_index" /\ outcome = "ok" /\ saved.valid) =>
        /\ index = saved.index
        /\ documents = saved.documents

\* C7 witness: a store of two documents, saved over the artifacts of an
\* earlier different save, has been loaded back.
C7_Witness ==
    /\ lastOp = "load_index"
    /\ outcome = "ok"
    /\ saved.valid
    /\ saved.replaced
    /\ Len(saved.documents) = 2
    /\ \E i \in 1..2 : saved.documents[i].metadata.chunk_id # 0
    /\ documents = saved.documents
    /\ index = saved.index

\* C8: a load_index on a directory from which index.faiss or documents.pkl is
\* missing raises FileNotFoundError and changes neither self.index nor
\* self.documents.
C8_MissingArtifactRaisesNotFound ==
    [][(lastOp' = "load_index"
          /\ (indexFile.state = "missing" \/ docsFile.state = "missing")) =>
          (outcome' = "FileNotFoundError" /\ UNCHANGED store)]_vars

\* C8 witness: a Ready store has failed to load a directory that holds
\* index.faiss, with other vectors than the store's, but no documents.pkl.
C8_Witness ==
    /\ lastOp = "load_index"
    /\ outcome = "FileNotFoundError"
    /\ Ready
    /\ indexFile.state = "valid"
    /\ docsFile.state = "missing"
    /\ ReadIndex(indexFile) # index

\* C9: a save_index on a store on which no create_index and no load_index has
\* returned raises the not-ready error and leaves the directory and both
\* artifacts as they were (the directory is not created).
C9_SaveBeforeReadyRaisesNotReady ==
    [][(lastOp' = "save_index" /\ ~everReady /\ ~Ready) =>
          (outcome' = NotReadyError /\ UNCHANGED disk)]_vars

\* C10: a create_index that raises at any statement leaves self.index and
\* self.documents as they were: the store does not come to hold an index it
\* did not hold before, and never an index without its documents.
C10_FailedBuildLeavesStore ==
    [][(lastOp' = "create_index" /\ outcome' # "ok") => UNCHANGED store]_vars

C15_SelfMatchAtOwnPosition ==
    Ready =>
        \A i \in 1..Len(index.xb) :
            \A h \in IndexSearch(index, index.xb[i], 1) :
                /\ h[1].dist = 0
                /\ h[1].idx = i - 1

\* C15 as amended: for every stored vector v_i, a search for v_i with k = 1
\* reports distance 0 at a position that stores a vector equal to v_i, which
\* is position i when no other position stores that vector.
C15_SelfMatchAtEqualVector ==
    Ready =>
        \A i \in 1..Len(index.xb) :
            \A h \in IndexSearch(index, index.xb[i], 1) :
                /\ h[1].dist = 0
                /\ h[1].idx \in 0..(Len(index.xb) - 1)
                /\ index.xb[h[1].idx + 1] = index.xb[i]
                /\ (\A j \in 1..Len(index.xb) : j # i => index.xb[j] # index.xb[i])
                      => h[1].idx = i - 1

\* C15 witness: a search with k = 1 has reported distance 0 at a position
\* whose vector is also stored at another position.
C15_Witness ==
    /\ lastOp = "search"
    /\ outcome = "ok"
    /\ Len(hits) = 1
    /\ hits[1].dist = 0
    /\ hits[1].idx >= 0
    /\ \E j \in 1..Len(index.xb) :
          /\ j # hits[1].idx + 1
          /\ index.xb[j] = index.xb[hits[1].idx + 1]

\* C16: a search that returns, returns one result for every slot the index
\* filled and none for a slot it did not fill; a search that raises returns
\* nothing; and a search whose embed_query raises, raises that failure.
C16_SearchCompleteOrFails ==
    /\ [](lastOp = "search" =>
            IF outcome = "ok"
            THEN /\ Len(results) = Cardinality({i \in 1..Len(hits) : hits[i].idx # PadLabel})
                 /\ \A i \in 1..Len(hits) :
                       hits[i].idx < Len(documents) => hits[i].idx # PadLabel
            ELSE results = <<>>)
    /\ [][(Ready /\ \E query \in Queries, k \in 1..MaxK : search(query, k, TRUE)) =>
             (outcome' = "ProviderError" /\ results' = <<>>)]_vars

\* the positions of the loaded list whose document comes from file f
PositionsOf(f) == { i \in 1..Len(loaded.docs) : loaded.docs[i].metadata.source = f }

\* file f of the listing was read: it ends in .txt and its read did not raise
WasRead(f) ==
    /\ \E i \in 1..Len(listing) : listing[i] = f
    /\ EndsWithTxt(f)
    /\ f \notin unreadable

\* the position of file f in the listing
ListingPos(f) == CHOOSE i \in 1..Len(listing) : listing[i] = f

\* C13: the list load_documents_from_directory returns holds no document of a
\* file that failed to read, holds for every file that was read all its
\* chunks in chunk order, and holds the files in the order of the listing.
C13_FailedFilesSkipped ==
    loaded.called =>
        /\ \A i \in 1..Len(loaded.docs) : WasRead(loaded.docs[i].metadata.source)
        /\ \A f \in unreadable : PositionsOf(f) = {}
        /\ \A f \in Files :
              WasRead(f) =>
                 LET mine == SelectSeq(loaded.docs, LAMBDA d : d.metadata.source = f)
                 IN [i \in 1..Len(mine) |-> mine[i].text] = Chunks(f)
        /\ \A i, j \in 1..Len(loaded.docs) :
              i < j => ListingPos(loaded.docs[i].metadata.source)
                          <= ListingPos(loaded.docs[j].metadata.source)

\* C13 witness: a file that failed to read stands in the listing before a
\* file that was read, and the documents of the latter were returned.
C13_Witness ==
    /\ loaded.called
    /\ \E a, b \in 1..Len(listing) :
          /\ a < b
          /\ listing[a] \in unreadable
          /\ WasRead(listing[b])
          /\ Len(Chunks(listing[b])) = 2
          /\ Cardinality(PositionsOf(listing[b])) = 2

\* C14: for every file that was read and yields n chunks, the returned list
\* holds exactly n documents of it, at consecutive positions, with chunk_id
\* 0, 1, ..., n-1 in that order and total_chunks n; so every document has
\* 0 <= chunk_id < total_chunks.
C14_ChunkNumbering ==
    loaded.called =>
        /\ \A f \in Files :
              WasRead(f) =>
                 LET pos == PositionsOf(f)
                     n == Len(Chunks(f))
                 IN /\ Cardinality(pos) = n
                    /\ \A i, j \in pos : \A m \in i..j : m \in pos
                    /\ \A i \in pos :
                          /\ loaded.docs[i].metadata.chunk_id
                                = Cardinality({ j \in pos : j < i })
                          /\ loaded.docs[i].metadata.total_chunks = n
        /\ \A i \in 1..Len(loaded.docs) :
              /\ 0 <= loaded.docs[i].metadata.chunk_id
              /\ loaded.docs[i].metadata.chunk_id < loaded.docs[i].metadata.total_chunks

\* C14 witness: the two chunks of b.txt were returned after the chunk of
\* another file.
C14_Witness ==
    /\ loaded.called
    /\ Len(loaded.docs) = 3
    /\ loaded.docs[1].metadata.source = "a.txt"
    /\ loaded.docs[3].metadata.source = "b.txt"
    /\ loaded.docs[3].metadata.chunk_id = 1

\* C12: a build by setup_faiss_knowledge_base for which load_documents_from_directory
\* returned no document raises the no-documents error, leaves no store that
\* accepts a search and leaves the storage directory and its artifacts as
\* they were.
C12_EmptyBuildRaisesNoDocuments ==
    [][(lastOp' = "setup_faiss_knowledge_base" /\ setup'.rebuilt
          /\ setup'.ndocs = 0) =>
          (outcome' = "NoDocumentsError" /\ ~Ready' /\ UNCHANGED disk)]_vars

\* C19: when setup_faiss_knowledge_base returns, the returned store holds an
\* index with as many vectors as documents and the directory holds the two
\* artifacts of that store; it has loaded, not rebuilt, exactly when
\* index.faiss existed and force_rebuild was false; and with index.faiss
\* present, documents.pkl missing and force_rebuild false it raises.
C19_SetupReturnsConsistentStore ==
    lastOp = "setup_faiss_knowledge_base" =>
        /\ outcome = "ok" =>
              /\ Ready
              /\ Len(index.xb) = Len(documents)
              /\ indexFile.state = "valid"
              /\ docsFile.state = "valid"
              /\ ReadIndex(indexFile) = index
              /\ PickleLoad(docsFile) = documents
        /\ ~setup.rebuilt <=> (setup.index_exists /\ ~setup.force_rebuild)
        /\ (setup.index_exists /\ ~setup.force_rebuild /\ docsFile.state = "missing")
              => (outcome # "ok" /\ ~setup.rebuilt)

\* what thread t has when it left search is what one search(query, k) of the
\* present store, run with no other thread, can leave
AsAlone(t) ==
    LET s == searchers[t]
    IN \/ s.outcome = "ProviderError" /\ s.results = <<>>
       \/ \E h \in IndexSearch(index, Embed(s.query), s.k) :
             IF ItemRaises(documents, h)
             THEN s.outcome = "IndexError" /\ s.results = <<>>
             ELSE s.outcome = "ok" /\ s.results = SearchResults(documents, h)

\* C17: searches interleaved statement by statement on a Ready store never
\* change its vectors nor its documents, no stored document gains a score
\* field, and every search that ends leaves what the same search leaves
\* when it runs alone on that store.
C17_ConcurrentSearchesReadOnly ==
    /\ [][index' = index /\ documents' = documents]_vars
    /\ [](\A i \in 1..Len(documents) : DOMAIN documents[i] = {"text", "metadata"})
    /\ [](\A t \in DOMAIN searchers : searchers[t].pc = "done" => AsAlone(t))

\* two threads are inside the loop of search at the same time, each having
\* appended a scored copy of the same stored document
C17_Witness ==
    \E t, u \in DOMAIN searchers :
        /\ t # u
        /\ searchers[t].pc = "loop" /\ searchers[u].pc = "loop"
        /\ searchers[t].i = 2 /\ searchers[u].i = 2
        /\ Len(searchers[t].results) = 1 /\ Len(searchers[u].results) = 1
        /\ searchers[t].hits[1].idx = searchers[u].hits[1].idx
        /\ searchers[t].results[1].score # searchers[u].results[1].score

\* C18: when get_tax_information builds its answer from a non-empty result
\* list, the first part is the text of the top result whatever its score,
\* the result at rank 2 or 3 is a part exactly when its score is strictly
\* greater than 1/2, and no part comes from a rank beyond 3.
C18_ToolIncludesTopAndRelevant ==
    (tool.called /\ tool.error = "" /\ tool.results # <<>>) =>
        LET res == tool.results
            parts == tool.context_parts
            Included(r) == \E p \in 2..Len(parts) :
                              parts[p].label = r - 1 /\ parts[p].text = res[r].text
        IN /\ tool.response = "answer"
           /\ Len(parts) >= 1
           /\ parts[1] = [label |-> 0, text |-> res[1].text]
           /\ \A r \in 2..3 : r <= Len(res) =>
                 (Included(r) <=> 2 * res[r].score.num > res[r].score.den)
           /\ \A p \in 2..Len(parts) :
                 /\ parts[p].label + 1 \in 2..3
                 /\ parts[p].label + 1 <= Len(res)
           /\ \A p, q \in 1..Len(parts) : p < q => parts[p].label < parts[q].label

\* an answer built from three results: the second has score 1 and is
\* included, the third has score exactly 1/2 and is left out
C18_Witness ==
    /\ tool.called /\ tool.response = "answer"
    /\ Len(tool.results) = 3
    /\ tool.results[2].score = [num |-> 1, den |-> 1]
    /\ tool.results[3].score = [num |-> 1, den |-> 2]
    /\ Len(tool.context_parts) = 2
    /\ tool.context_parts[2].label = 1
====
